---------------------------- MODULE Spec2Model ----------------------------
(***************************************************************************)
(* A model of GoodGit (src/goodgit.py): the commit-message validator, the  *)
(* diff size limiter, the GUI generation loop with its commit and push     *)
(* handlers, and the command-line path.                                    *)
(*                                                                         *)
(* Text is a sequence of one-character strings, so that matching,          *)
(* splitting, trimming and slicing are computed character by character.    *)
(***************************************************************************)
EXTENDS Integers, Sequences, FiniteSets, TLC

VARIABLES
    candidate,      \* validator harness: the string handed to is_valid_commit_message
    verdict,        \* validator harness: "unset", "True" or "False"
    diff_text,      \* limiter harness: the raw diff handed to limit_diff_size
    max_size,       \* limiter harness: the cap handed to limit_diff_size
    limited,        \* limiter harness: <<>> or <<result of limit_diff_size(diff_text, max_size)>>
    relimited       \* limiter harness: <<>> or <<result of limit_diff_size(limited.text, max_size)>>

VARIABLES
    mode,           \* "gui" or "cli": the interface main() launched
    worktree,       \* the repository: each file "clean", "changed" (not staged) or "staged"
    commits,        \* the repository: the messages of the commits created, oldest first
    api_manager,    \* "client", or "None" when GROQ_API_KEY is not set
    file_vars,      \* GUI: the displayed files and whether each checkbox is ticked
    text_area,      \* GUI: the content of the commit message buffer
    tk_queue,       \* GUI: the callbacks handed to text_area.after(0, ...), not yet run
    reported,       \* the title of the message box the last step showed, or "none"
    last_op,        \* the operation the last step ran
    pc,             \* generation thread: where it is
    attempt,        \* generation thread: the loop variable of the retry loop
    commit_message, \* generation thread: the last value returned by generate_commit_message
    staged_diff,    \* generation thread: <<>> or <<[raw, text, truncated]>> of get_staged_diff
    calls,          \* generation thread: the generator calls made by the run in progress
    fatal_at,       \* generation thread: the call of that run that first failed fatally, or 0
    cli_pc,         \* CLI: where cli() is
    cli_args,       \* CLI: [commit, push], the flags given
    cli_diff,       \* CLI: <<>> or <<[raw, text]>>, the staged diff and what was submitted of it
    cli_message,    \* CLI: the commit message cli() holds
    last_commit     \* "none", "ok" or "failed": what the last commit_changes call returned

VARIABLES
    staged_changes, \* classifier harness: the items of repo.index.diff("HEAD")
    changed_files,  \* classifier harness: the items of repo.index.diff(None)
    untracked_files,\* classifier harness: repo.untracked_files
    classified,     \* classifier harness: <<>> or <<what populate_files built>>
    cli_staged      \* classifier harness: <<>> or <<the files_to_stage of cli()>>

classifier_vars == <<staged_changes, changed_files, untracked_files, classified, cli_staged>>

VARIABLES
    cwd,            \* session: the directory the process was started in
    repo_manager,   \* session: "None", or the repository the active RepoManager wraps
    repo_path,      \* session: "None", or the path self.repo_path holds
    buttons,        \* session: "unbuilt", or the state of the generate, commit, push and
                    \* refresh buttons, "disabled" or "normal"
    main_op,        \* session: the repository operation the interactive thread is in
    task,           \* session: for each generation thread, where it is and the
                    \* repository its diff was read from
    buffer_from,    \* session: "none", or the repository whose diff the delivered message
                    \* was generated from
    session_op,     \* session: the handler or thread step that ran last, and its argument
    session_report  \* session: the title of the message box that step showed, or "none"

session_vars == <<cwd, repo_manager, repo_path, buttons, main_op, task, buffer_from, session_op,
                  session_report>>

VARIABLES
    reply_content,  \* reply harness: the content of the first choice of the backend's answer
    reply_message,  \* reply harness: <<>> or <<what generate_commit_message returned>>
    reply_delivered \* reply harness: <<>> or <<the message handed to update_text_area>>

reply_vars == <<reply_content, reply_message, reply_delivered>>

VARIABLES
    gen,            \* buffer harness: for each generation thread, where it is and the
                    \* reply it is delivering
    timers,         \* buffer harness: the callbacks registered with text_area.after(0, ...)
                    \* and not yet run, oldest first
    buffer,         \* buffer harness: the content of the commit message buffer
    last_insert     \* buffer harness: <<>>, or the message of the last insert that ran

buffer_vars == <<gen, timers, buffer, last_insert>>

harness_vars == <<candidate, verdict, diff_text, max_size, limited, relimited,
                  classifier_vars, session_vars, reply_vars, buffer_vars>>

repo_vars == <<worktree, commits>>

gui_vars == <<file_vars, text_area, tk_queue>>

thread_vars == <<pc, attempt, commit_message, staged_diff, calls, fatal_at>>

cli_vars == <<cli_pc, cli_args, cli_diff, cli_message>>

main_vars == <<mode, api_manager, reported, last_op, last_commit, repo_vars, gui_vars,
               thread_vars, cli_vars>>

vars == <<harness_vars, main_vars>>

-----------------------------------------------------------------------------
(* Bounds of the model *)

\* longest description tail appended to a candidate commit message
MaxDesc == 2
\* most tokens a raw diff of the limiter harness is assembled from
MaxToks == 4
\* largest cap handed to limit_diff_size in the limiter harness
MaxCap == 36
\* most items of one partition (staged, unstaged, untracked) in the classifier harness
MaxChanges == 2
\* most callbacks registered and not yet run in the buffer harness
MaxTimers == 2

-----------------------------------------------------------------------------
(* Text helpers *)

RECURSIVE Concat(_)
\* ''.join(parts)
Concat(parts) ==
    IF parts = <<>> THEN <<>> ELSE Head(parts) \o Concat(Tail(parts))

\* s.startswith(p)
StartsWith(s, p) ==
    Len(p) <= Len(s) /\ SubSeq(s, 1, Len(p)) = p

\* s[:n]
Slice(s, n) ==
    SubSeq(s, 1, IF n < Len(s) THEN n ELSE Len(s))

\* the characters str.strip() removes
Whitespace == {" ", "\n", "\t", "\r"}

RECURSIVE lstrip(_)
lstrip(s) ==
    IF s # <<>> /\ Head(s) \in Whitespace THEN lstrip(Tail(s)) ELSE s

RECURSIVE rstrip(_)
rstrip(s) ==
    IF s # <<>> /\ s[Len(s)] \in Whitespace THEN rstrip(SubSeq(s, 1, Len(s) - 1)) ELSE s

\* str.strip()
strip(s) == rstrip(lstrip(s))

-----------------------------------------------------------------------------
(* is_valid_commit_message *)

\* CONVENTIONAL_TYPES
CONVENTIONAL_TYPES ==
    << <<"f", "e", "a", "t">>, <<"f", "i", "x">>, <<"d", "o", "c", "s">>,
       <<"s", "t", "y", "l", "e">>, <<"r", "e", "f", "a", "c", "t", "o", "r">>,
       <<"p", "e", "r", "f">>, <<"t", "e", "s", "t">>, <<"c", "h", "o", "r", "e">>,
       <<"c", "i">>, <<"b", "u", "i", "l", "d">>,
       <<"r", "e", "n", "a", "m", "e">>, <<"r", "e", "m", "o", "v", "e">> >>

\* the pattern without the rename and remove alternatives
pattern_types_ten ==
    << <<"f", "e", "a", "t">>, <<"f", "i", "x">>, <<"d", "o", "c", "s">>,
       <<"s", "t", "y", "l", "e">>, <<"r", "e", "f", "a", "c", "t", "o", "r">>,
       <<"p", "e", "r", "f">>, <<"t", "e", "s", "t">>, <<"c", "h", "o", "r", "e">>,
       <<"c", "i">>, <<"b", "u", "i", "l", "d">> >>

\* the alternation (feat|fix|...|remove) of the pattern, in its order
pattern_types ==
    << <<"f", "e", "a", "t">>, <<"f", "i", "x">>, <<"d", "o", "c", "s">>,
       <<"s", "t", "y", "l", "e">>, <<"r", "e", "f", "a", "c", "t", "o", "r">>,
       <<"p", "e", "r", "f">>, <<"t", "e", "s", "t">>, <<"c", "h", "o", "r", "e">>,
       <<"c", "i">>, <<"b", "u", "i", "l", "d">>,
       <<"r", "e", "n", "a", "m", "e">>, <<"r", "e", "m", "o", "v", "e">> >>

\* the literal ": " of the pattern
pattern_separator == <<":", " ">>

\* the positions at which the alternation can end when matched at the start (^)
MatchAlternation(s) ==
    { Len(pattern_types[i]) : i \in { j \in 1..Len(pattern_types) : StartsWith(s, pattern_types[j]) } }

\* matching a literal at position pos: the position after it, or -1
MatchLiteral(s, pos, lit) ==
    IF pos + Len(lit) <= Len(s) /\ SubSeq(s, pos + 1, pos + Len(lit)) = lit
    THEN pos + Len(lit) ELSE -1

\* '.+' at position pos: one character or more, none of them a line feed
MatchDotPlus(s, pos) ==
    pos < Len(s) /\ s[pos + 1] # "\n"

\* re.match(pattern, commit_message) is not None
is_valid_commit_message(message) ==
    \E e \in MatchAlternation(message) :
        LET p == MatchLiteral(message, e, pattern_separator)
        IN  p # -1 /\ MatchDotPlus(message, p)

-----------------------------------------------------------------------------
(* RepoManager.limit_diff_size *)

\* the separator '\ndiff --git' the diff is split at
DiffSeparator == <<"\n", "d", "i", "f", "f", " ", "-", "-", "g", "i", "t">>

RECURSIVE split(_, _)
\* s.split(sep): the pieces between the occurrences of sep, found left to right
split(s, sep) ==
    LET hits == { i \in 1..(Len(s) - Len(sep) + 1) : SubSeq(s, i, i + Len(sep) - 1) = sep }
    IN  IF hits = {} THEN <<s>>
        ELSE LET i == CHOOSE h \in hits : \A g \in hits : h <= g
             IN  <<SubSeq(s, 1, i - 1)>> \o split(SubSeq(s, i + Len(sep), Len(s)), sep)

RECURSIVE limit_loop_continue(_, _, _)
\* the for loop passing over a file diff that does not fit, as with continue
\* in the place of break
limit_loop_continue(file_diffs, limited_diff, cap) ==
    IF file_diffs = <<>> THEN limited_diff
    ELSE LET reconstructed_diff == DiffSeparator \o Head(file_diffs)
         IN  IF Len(limited_diff) + Len(reconstructed_diff) > cap
             THEN limit_loop_continue(Tail(file_diffs), limited_diff, cap)
             ELSE limit_loop_continue(Tail(file_diffs), limited_diff \o reconstructed_diff, cap)

RECURSIVE limit_loop(_, _, _)
\* the for loop of limit_diff_size over the remaining file_diffs
limit_loop(file_diffs, limited_diff, cap) ==
    IF file_diffs = <<>> THEN limited_diff
    ELSE LET reconstructed_diff == DiffSeparator \o Head(file_diffs)
         IN  IF Len(limited_diff) + Len(reconstructed_diff) > cap
             THEN limited_diff
             ELSE limit_loop(Tail(file_diffs), limited_diff \o reconstructed_diff, cap)

\* limit_diff_size cutting at the character, as diff[:max_size] does
limit_diff_size_slice(text, cap) ==
    IF Len(text) > cap
    THEN [text |-> Slice(text, cap), truncated |-> TRUE]
    ELSE [text |-> text, truncated |-> FALSE]

\* limit_diff_size always keeping the first file diff, whatever its size
limit_diff_size_keep_first(text, cap) ==
    IF Len(text) > cap
    THEN LET file_diffs == split(text, DiffSeparator)
             limited_diff == limit_loop(Tail(file_diffs), DiffSeparator \o Head(file_diffs), cap)
         IN  [text |-> limited_diff, truncated |-> Len(limited_diff) < Len(text)]
    ELSE [text |-> text, truncated |-> FALSE]

\* limit_diff_size cutting a diff of exactly max_size characters too
limit_diff_size_at_cap(text, cap) ==
    IF Len(text) >= cap
    THEN LET file_diffs == split(text, DiffSeparator)
             limited_diff == limit_loop(file_diffs, <<>>, cap)
         IN  [text |-> limited_diff, truncated |-> Len(limited_diff) < Len(text)]
    ELSE [text |-> text, truncated |-> FALSE]

\* limit_diff_size(diff_text, max_size) -> (limited_diff, was_truncated)
limit_diff_size(text, cap) ==
    IF Len(text) > cap
    THEN LET file_diffs == split(text, DiffSeparator)
             limited_diff == limit_loop(file_diffs, <<>>, cap)
         IN  [text |-> limited_diff, truncated |-> Len(limited_diff) < Len(text)]
    ELSE [text |-> text, truncated |-> FALSE]

-----------------------------------------------------------------------------
(* The repository *)

\* the files of the working tree, in the order git reports them
FileOrder == <<"a", "b">>

Files == { FileOrder[i] : i \in 1..Len(FileOrder) }

\* the header line that opens the diff of one file
DiffHeader == <<"d", "i", "f", "f", " ", "-", "-", "g", "i", "t">>

\* the changed lines of each file: a has a short diff, b a long one
FileBody(f) ==
    IF f = "a" THEN <<"+">>
    ELSE <<"+", "1", "\n", "+", "2", "\n", "+", "3", "\n", "+", "4", "\n", "+", "5">>

\* the diff block of one file
FileDiff(f) == DiffHeader \o <<" ", f, "\n">> \o FileBody(f)

RECURSIVE Join(_, _)
\* sep.join(parts)
Join(parts, sep) ==
    IF parts = <<>> THEN <<>>
    ELSE IF Len(parts) = 1 THEN Head(parts)
    ELSE Head(parts) \o sep \o Join(Tail(parts), sep)

\* the files of the set kept, in the order of FileOrder
FilesWhere(kept) == SelectSeq(FileOrder, LAMBDA f : f \in kept)

\* repo.git.diff('--cached', '--pretty=format:', '-M'): the diff blocks of the
\* staged files, one after the other
git_diff_cached(wt) ==
    LET staged == FilesWhere({f \in Files : wt[f] = "staged"})
    IN  Join([i \in 1..Len(staged) |-> FileDiff(staged[i])], <<"\n">>)

\* unstage_all_files leaving the index as it is
git_reset_nothing(wt) == wt

\* repo.git.reset(): nothing stays staged
git_reset(wt) ==
    [f \in Files |-> IF wt[f] = "staged" THEN "changed" ELSE wt[f]]

\* repo.index.add(file) for the first n files of a list; a file without a
\* change stays as it is
index_add(wt, files, n) ==
    [f \in Files |->
        IF wt[f] = "changed" /\ \E i \in 1..n : files[i] = f THEN "staged" ELSE wt[f]]

\* repo.index.commit(message): what was staged is committed
index_commit(wt) ==
    [f \in Files |-> IF wt[f] = "staged" THEN "clean" ELSE wt[f]]

\* the entries populate_files displays, each with its checkbox ticked
populated(wt) ==
    [f \in { g \in Files : wt[g] # "clean" } |-> TRUE]

-----------------------------------------------------------------------------
(* The change classifier: populate_files and the files_to_stage of cli() *)

\* max_files=50 of populate_files, scaled to the size of the model's lists
MaxFiles == 3

\* the text between the two paths of a renamed entry
RenameArrow == <<" ", "-", ">", " ">>

\* the path of the entry made from one diff item: f"{old_path} -> {new_path}"
\* for a rename, item.a_path otherwise
entry_path(item) ==
    IF item.change_type = "R" THEN item.a_path \o RenameArrow \o item.b_path
    ELSE item.a_path

\* the tag of the entry made from one diff item of a partition
entry_status(item, partition) ==
    IF item.change_type = "R" THEN "renamed" ELSE partition

\* the list with the unstaged entries in front of the staged ones
changed_files_list_unstaged_first(staged, changed, untracked) ==
    [i \in 1..Len(changed) |->
        [path |-> entry_path(changed[i]), status |-> entry_status(changed[i], "unstaged")]]
    \o [i \in 1..Len(staged) |->
        [path |-> entry_path(staged[i]), status |-> entry_status(staged[i], "staged")]]
    \o [i \in 1..Len(untracked) |-> [path |-> untracked[i], status |-> "untracked"]]

\* changed_files_list of populate_files: the staged items, the unstaged items,
\* the untracked files
changed_files_list(staged, changed, untracked) ==
    [i \in 1..Len(staged) |->
        [path |-> entry_path(staged[i]), status |-> entry_status(staged[i], "staged")]]
    \o [i \in 1..Len(changed) |->
        [path |-> entry_path(changed[i]), status |-> entry_status(changed[i], "unstaged")]]
    \o [i \in 1..Len(untracked) |-> [path |-> untracked[i], status |-> "untracked"]]

\* changed_files_list[:max_files] when the list is longer
displayed_files(list, max_files) ==
    IF Len(list) > max_files THEN Slice(list, max_files) ELSE list

\* self.file_vars[file_path] = var for every displayed entry: one variable per
\* path, the one of the last entry with that path
new_file_vars(list) ==
    [p \in { list[i].path : i \in 1..Len(list) } |-> TRUE]

\* files_to_stage of cli(): the staged items, the unstaged items, the untracked files
cli_files_to_stage(staged, changed, untracked) ==
    [i \in 1..Len(staged) |-> entry_path(staged[i])]
    \o [i \in 1..Len(changed) |-> entry_path(changed[i])]
    \o untracked

-----------------------------------------------------------------------------
(* The text-generation backend and APIManager.generate_commit_message *)

\* what the backend can answer to one request: a first choice with its
\* content, no choice at all, or a failure of one of four kinds
BackendOutcomes ==
    { [kind |-> "reply", content |-> c] :
        c \in { <<" ", "f", "e", "a", "t", ":", " ", "x", "\n">>,
                <<"o", "o", "p", "s">>,
                <<" ", "\n">> } }
    \cup { [kind |-> "no_choices", content |-> <<>>] }
    \cup { [kind |-> k, content |-> <<>>] :
            k \in {"AuthInvalid", "PayloadTooLarge", "Transient", "Unknown"} }

\* the failures after which a retry cannot succeed
FatalKinds == {"AuthInvalid", "PayloadTooLarge"}

\* the value generate_commit_message returns: the stripped content of the first
\* choice, and the empty string without a choice or after any exception
generate_commit_message(outcome) ==
    IF outcome.kind = "reply" THEN strip(outcome.content) ELSE <<>>

\* the message box generate_commit_message shows: one for any exception
generate_report(outcome) ==
    IF outcome.kind \in {"reply", "no_choices"} THEN "none" ELSE "Groq API Error"

-----------------------------------------------------------------------------
(* Constants of the program and their scaled stand-ins *)

\* max_retries of generate_message
MaxRetries == 3
\* max_size=3000 of get_staged_diff, scaled to the size of the model's diffs
GuiMaxSize == 25
\* max_diff_size = 5000 of cli(), scaled to the size of the model's diffs
CliMaxDiffSize == 35
\* most commits created in one run of the model
MaxCommits == 1
\* most callbacks waiting in the Tk event queue
MaxQueue == 1
\* the generation threads: this model runs one at a time, a new run starts
\* when the last one has ended
Threads == {1}

\* the texts the user types into the commit message buffer
TypedTexts == { <<" ", "\n", " ">>, <<"w", "i", "p">> }

-----------------------------------------------------------------------------
(* Initial state of the application *)

\* the validator harness is not in use
ValidatorIdle == candidate = <<>> /\ verdict = "unset"

\* the limiter harness is not in use
LimiterIdle == diff_text = <<>> /\ max_size = 0 /\ limited = <<>> /\ relimited = <<>>

\* the classifier harness is not in use
ClassifierIdle ==
    /\ staged_changes = <<>>
    /\ changed_files = <<>>
    /\ untracked_files = <<>>
    /\ classified = <<>>
    /\ cli_staged = <<>>

\* the generation threads of the session model
Tasks == {"Thread-1", "Thread-2"}

\* the session model is not in use
SessionIdle ==
    /\ cwd = "None"
    /\ repo_manager = "None"
    /\ repo_path = "None"
    /\ buttons = "unbuilt"
    /\ main_op = [op |-> "idle", repo |-> "None"]
    /\ task = [t \in Tasks |-> [pc |-> "idle", repo |-> "None"]]
    /\ buffer_from = "none"
    /\ session_op = [op |-> "none", arg |-> "None"]
    /\ session_report = "none"

\* the reply harness is not in use
ReplyIdle == reply_content = <<>> /\ reply_message = <<>> /\ reply_delivered = <<>>

\* the buffer harness is not in use
BufferIdle ==
    /\ gen = [t \in Tasks |-> [pc |-> "idle", message |-> <<>>]]
    /\ timers = <<>>
    /\ buffer = <<>>
    /\ last_insert = <<>>

ThreadsIdle ==
    /\ pc = [t \in Threads |-> "idle"]
    /\ attempt = [t \in Threads |-> 0]
    /\ commit_message = [t \in Threads |-> <<>>]
    /\ staged_diff = [t \in Threads |-> <<>>]
    /\ calls = [t \in Threads |-> 0]
    /\ fatal_at = [t \in Threads |-> 0]

\* main() with no application launched: the state of the harnesses
MainIdle ==
    /\ mode = "none"
    /\ worktree = [f \in Files |-> "clean"]
    /\ commits = <<>>
    /\ api_manager = "None"
    /\ file_vars = [f \in {} |-> TRUE]
    /\ text_area = <<>>
    /\ tk_queue = <<>>
    /\ reported = "none"
    /\ last_op = "init"
    /\ ThreadsIdle
    /\ cli_pc = "off"
    /\ cli_args = [commit |-> FALSE, push |-> FALSE]
    /\ cli_diff = <<>>
    /\ cli_message = <<>>
    /\ last_commit = "none"

\* CommitGeneratorGUI.__init__ in a directory inside a repository
InitGui ==
    /\ mode = "gui"
    /\ worktree \in [Files -> {"clean", "changed", "staged"}]
    /\ commits = <<>>
    /\ api_manager \in {"client", "None"}
    /\ file_vars = populated(worktree)
    /\ text_area = <<>>
    /\ tk_queue = <<>>
    /\ reported = IF api_manager = "None" THEN "API Key Missing" ELSE "none"
    /\ last_op = "init"
    /\ ThreadsIdle
    /\ cli_pc = "off"
    /\ cli_args = [commit |-> FALSE, push |-> FALSE]
    /\ cli_diff = <<>>
    /\ cli_message = <<>>
    /\ last_commit = "none"

\* cli() entered in a directory inside a repository
InitCli ==
    /\ mode = "cli"
    /\ worktree \in [Files -> {"clean", "changed", "staged"}]
    /\ commits = <<>>
    /\ api_manager \in {"client", "None"}
    /\ file_vars = [f \in {} |-> TRUE]
    /\ text_area = <<>>
    /\ tk_queue = <<>>
    /\ reported = "none"
    /\ last_op = "init"
    /\ ThreadsIdle
    /\ cli_pc = "start"
    /\ cli_args \in [commit : BOOLEAN, push : BOOLEAN]
    /\ cli_diff = <<>>
    /\ cli_message = <<>>
    /\ last_commit = "none"

Init ==
    /\ ValidatorIdle
    /\ LimiterIdle
    /\ ClassifierIdle
    /\ SessionIdle
    /\ ReplyIdle
    /\ BufferIdle
    /\ (InitGui \/ InitCli)

-----------------------------------------------------------------------------
(* The GUI: handlers run by the interactive thread *)

\* the states in which a generation thread has ended
Ended == {"no_diff", "success", "manual", "declined", "error"}

\* a callback handed to text_area.after(0, ...)
Callback(op, message, title) == [op |-> op, message |-> message, title |-> title]

\* the ticked entries of file_vars, in the order they are displayed
selected_files ==
    FilesWhere({f \in DOMAIN file_vars : file_vars[f]})

\* text_area.get(1.0, tk.END): the content and the line feed Tk ends it with
text_area_get == text_area \o <<"\n">>

\* the test of commit_message for a missing message, without the strip()
no_commit_msg_unstripped(content) == content = <<"\n">>

\* commit_msg = text_area.get(1.0, tk.END).strip(); if not commit_msg
no_commit_msg(content) == strip(content) = <<>>

\* commit_message refreshing the list and clearing the buffer after any commit
refresh_after_any_commit(success) == TRUE

\* commit_message: if success: populate_files, text_area.delete
refresh_after_commit(success) == success

\* generate_message: stage_selected_files, then the generation thread
generate_message(t) ==
    /\ mode = "gui"
    /\ pc[t] \in {"idle"} \cup Ended
    /\ last_op' = "generate_message"
    /\ UNCHANGED <<mode, api_manager, last_commit, commits, gui_vars, cli_vars, harness_vars>>
    /\ \E unstage_ok \in BOOLEAN, staged_upto \in 0..Len(selected_files) :
        \/ \* unstage_all_files fails
           /\ ~unstage_ok /\ staged_upto = 0
           /\ reported' = "Git Error"
           /\ UNCHANGED <<worktree, thread_vars>>
        \/ \* nothing is ticked
           /\ unstage_ok /\ selected_files = <<>>
           /\ worktree' = git_reset(worktree)
           /\ reported' = "No Files Selected"
           /\ UNCHANGED thread_vars
        \/ \* stage_files fails at the file after the first staged_upto
           /\ unstage_ok /\ staged_upto < Len(selected_files)
           /\ worktree' = index_add(git_reset(worktree), selected_files, staged_upto)
           /\ reported' = "Git Error"
           /\ UNCHANGED thread_vars
        \/ \* the selection is staged and the thread is started
           /\ unstage_ok /\ selected_files # <<>> /\ staged_upto = Len(selected_files)
           /\ worktree' = index_add(git_reset(worktree), selected_files, staged_upto)
           /\ reported' = "none"
           /\ pc' = [pc EXCEPT ![t] = "start"]
           /\ UNCHANGED <<attempt, commit_message, staged_diff, calls, fatal_at>>

\* commit_message: the Commit button
commit_message_clicked ==
    /\ mode = "gui"
    /\ last_op' = "commit_message"
    /\ UNCHANGED <<mode, api_manager, tk_queue, thread_vars, cli_vars, harness_vars>>
    /\ IF no_commit_msg(text_area_get)
       THEN /\ reported' = "No Commit Message"
            /\ UNCHANGED <<repo_vars, file_vars, text_area, last_commit>>
       ELSE \E success \in BOOLEAN :
            /\ success => Len(commits) < MaxCommits
            /\ IF success
               THEN \* commit_changes returns True
                    /\ commits' = Append(commits, strip(text_area_get))
                    /\ worktree' = index_commit(worktree)
                    /\ last_commit' = "ok"
                    /\ reported' = "Success"
               ELSE \* commit_changes returns False
                    /\ last_commit' = "failed"
                    /\ reported' = "Git Error"
                    /\ UNCHANGED repo_vars
            /\ IF refresh_after_commit(success)
               THEN file_vars' = populated(worktree') /\ text_area' = <<>>
               ELSE UNCHANGED <<file_vars, text_area>>

\* push_commit: the Push button
push_commit ==
    /\ mode = "gui"
    /\ last_op' = "push_commit"
    /\ reported' \in {"Success", "Push Error", "Remote Not Found"}
    /\ UNCHANGED <<mode, api_manager, last_commit, repo_vars, gui_vars, thread_vars, cli_vars,
                   harness_vars>>

\* refresh_files: the Refresh button
refresh_files ==
    /\ mode = "gui"
    /\ last_op' = "refresh_files"
    /\ file_vars' = populated(worktree)
    /\ text_area' = <<>>
    /\ reported' = "Refreshed"
    /\ UNCHANGED <<mode, api_manager, last_commit, repo_vars, tk_queue, thread_vars, cli_vars,
                   harness_vars>>

\* the user ticks or unticks the checkbox of a displayed file
toggle_file(f) ==
    /\ mode = "gui"
    /\ f \in DOMAIN file_vars
    /\ last_op' = "toggle_file"
    /\ file_vars' = [file_vars EXCEPT ![f] = ~file_vars[f]]
    /\ reported' = "none"
    /\ UNCHANGED <<mode, api_manager, last_commit, repo_vars, text_area, tk_queue,
                   thread_vars, cli_vars, harness_vars>>

\* the user edits the commit message buffer
type_message(text) ==
    /\ mode = "gui"
    /\ text # text_area
    /\ last_op' = "type_message"
    /\ text_area' = text
    /\ reported' = "none"
    /\ UNCHANGED <<mode, api_manager, last_commit, repo_vars, file_vars, tk_queue,
                   thread_vars, cli_vars, harness_vars>>

\* the Tk main loop runs the oldest callback of text_area.after(0, ...)
run_callback ==
    /\ mode = "gui"
    /\ tk_queue # <<>>
    /\ last_op' = "run_callback"
    /\ tk_queue' = Tail(tk_queue)
    /\ LET cb == Head(tk_queue)
       IN  /\ text_area' = CASE cb.op = "delete" -> <<>>
                             [] cb.op = "insert" -> text_area \o cb.message
                             [] OTHER -> text_area
           /\ reported' = IF cb.op \in {"showwarning", "showerror"} THEN cb.title ELSE "none"
    /\ UNCHANGED <<mode, api_manager, last_commit, repo_vars, file_vars, thread_vars, cli_vars,
                   harness_vars>>

-----------------------------------------------------------------------------
(* The GUI: _generate_message_thread *)

\* the acceptance test of the loop without the validator
accepts_reply_nonempty(message) == message # <<>>

\* if commit_message and is_valid_commit_message(commit_message)
accepts_reply(message) ==
    message # <<>> /\ is_valid_commit_message(message)

\* the retry loop giving up one attempt early
has_next_attempt_short(n, max_retries) == n + 1 <= max_retries - 1

\* the retry loop running one attempt too many
has_next_attempt_extra(n, max_retries) == n + 1 <= max_retries + 1

\* for attempt in range(1, max_retries + 1): whether another attempt follows
has_next_attempt(n, max_retries) == n + 1 <= max_retries

\* the loop going on after update_text_area, as without the return
after_delivery_continue(n, max_retries) ==
    IF has_next_attempt(n, max_retries) THEN "loop" ELSE "prompt"

\* update_text_area(commit_message); return: where the thread is after a
\* delivery in attempt n
after_delivery(n, max_retries) == "success"

\* get_staged_diff and the checks before the loop
get_staged_diff(t) ==
    /\ mode = "gui"
    /\ pc[t] = "start"
    /\ Len(tk_queue) < MaxQueue
    /\ last_op' = "get_staged_diff"
    /\ UNCHANGED <<mode, api_manager, last_commit, repo_vars, file_vars, text_area,
                   commit_message, calls, fatal_at, cli_vars, harness_vars>>
    /\ \E ok \in BOOLEAN :
        LET raw == git_diff_cached(worktree)
            lim == limit_diff_size(raw, GuiMaxSize)
            got == IF ok THEN [raw |-> raw, text |-> lim.text, truncated |-> lim.truncated]
                   ELSE [raw |-> raw, text |-> <<>>, truncated |-> FALSE]
        IN  /\ reported' = IF ok THEN "none" ELSE "Git Error"
            /\ IF got.text = <<>>
               THEN \* if not diff_text: return
                    /\ pc' = [pc EXCEPT ![t] = "no_diff"]
                    /\ UNCHANGED <<attempt, staged_diff, tk_queue>>
               ELSE /\ pc' = [pc EXCEPT ![t] = "loop"]
                    /\ attempt' = [attempt EXCEPT ![t] = 1]
                    /\ staged_diff' = [staged_diff EXCEPT ![t] = <<got>>]
                    /\ tk_queue' = IF got.truncated
                                   THEN Append(tk_queue, Callback("showwarning", <<>>, "Diff Truncated"))
                                   ELSE tk_queue

\* one pass of the retry loop: the generator call, the validation, and the
\* first half of update_text_area or the step to the next attempt
generate_attempt(t) ==
    /\ mode = "gui"
    /\ pc[t] = "loop"
    /\ Len(tk_queue) < MaxQueue
    /\ last_op' = "generate_attempt"
    /\ UNCHANGED <<mode, api_manager, last_commit, repo_vars, file_vars, text_area, cli_vars,
                   harness_vars>>
    /\ IF api_manager = "None"
       THEN \* self.api_manager is None: the AttributeError ends the thread
            /\ pc' = [pc EXCEPT ![t] = "error"]
            /\ attempt' = [attempt EXCEPT ![t] = 0]
            /\ staged_diff' = [staged_diff EXCEPT ![t] = <<>>]
            /\ tk_queue' = Append(tk_queue, Callback("showerror", <<>>, "Error"))
            /\ reported' = "none"
            /\ UNCHANGED <<commit_message, calls, fatal_at>>
       ELSE \E outcome \in BackendOutcomes :
            LET message == generate_commit_message(outcome)
            IN  /\ calls' = [calls EXCEPT ![t] = @ + 1]
                /\ fatal_at' = [fatal_at EXCEPT ![t] =
                                  IF @ = 0 /\ outcome.kind \in FatalKinds THEN calls[t] + 1 ELSE @]
                /\ commit_message' = [commit_message EXCEPT ![t] = message]
                /\ reported' = generate_report(outcome)
                /\ UNCHANGED staged_diff
                /\ IF accepts_reply(message)
                   THEN /\ pc' = [pc EXCEPT ![t] = "insert"]
                        /\ tk_queue' = Append(tk_queue, Callback("delete", <<>>, ""))
                        /\ UNCHANGED attempt
                   ELSE /\ IF has_next_attempt(attempt[t], MaxRetries)
                           THEN /\ attempt' = [attempt EXCEPT ![t] = @ + 1]
                                /\ UNCHANGED pc
                           ELSE /\ pc' = [pc EXCEPT ![t] = "prompt"]
                                /\ UNCHANGED attempt
                        /\ UNCHANGED tk_queue

\* the second half of update_text_area: the insert callback; the thread returns
update_text_area(t) ==
    /\ mode = "gui"
    /\ pc[t] = "insert"
    /\ Len(tk_queue) < MaxQueue
    /\ last_op' = "update_text_area"
    /\ pc' = [pc EXCEPT ![t] = after_delivery(attempt[t], MaxRetries)]
    /\ tk_queue' = Append(tk_queue, Callback("insert", commit_message[t], ""))
    /\ attempt' = [attempt EXCEPT ![t] = 0]
    /\ commit_message' = [commit_message EXCEPT ![t] = <<>>]
    /\ staged_diff' = [staged_diff EXCEPT ![t] = <<>>]
    /\ calls' = [calls EXCEPT ![t] = 0]
    /\ fatal_at' = [fatal_at EXCEPT ![t] = 0]
    /\ reported' = "none"
    /\ UNCHANGED <<mode, api_manager, last_commit, repo_vars, file_vars, text_area,
                   cli_vars, harness_vars>>

\* ask_yes_no after the loop, and clear_text_area on yes; the thread returns
ask_yes_no(t) ==
    /\ mode = "gui"
    /\ pc[t] = "prompt"
    /\ Len(tk_queue) < MaxQueue
    /\ last_op' = "ask_yes_no"
    /\ reported' = "Generate Commit Message"
    /\ \E response \in BOOLEAN :
        IF response
        THEN /\ pc' = [pc EXCEPT ![t] = "manual"]
             /\ tk_queue' = Append(tk_queue, Callback("delete", <<>>, ""))
        ELSE /\ pc' = [pc EXCEPT ![t] = "declined"]
             /\ UNCHANGED tk_queue
    /\ attempt' = [attempt EXCEPT ![t] = 0]
    /\ commit_message' = [commit_message EXCEPT ![t] = <<>>]
    /\ staged_diff' = [staged_diff EXCEPT ![t] = <<>>]
    /\ calls' = [calls EXCEPT ![t] = 0]
    /\ fatal_at' = [fatal_at EXCEPT ![t] = 0]
    /\ UNCHANGED <<mode, api_manager, last_commit, repo_vars, file_vars, text_area,
                   cli_vars, harness_vars>>

-----------------------------------------------------------------------------
(* The command-line interface: cli() *)

\* the files cli() stages: every changed file, the staged ones first
files_to_stage ==
    FilesWhere({f \in Files : worktree[f] = "staged"})
        \o FilesWhere({f \in Files : worktree[f] = "changed"})

\* the diff cli() submits: diff[:max_diff_size] when it is longer
cli_limit(diff) ==
    IF Len(diff) > CliMaxDiffSize THEN Slice(diff, CliMaxDiffSize) ELSE diff

\* get_changed_files, the exit without changes, and stage_files
cli_stage ==
    /\ mode = "cli"
    /\ cli_pc = "start"
    /\ last_op' = "cli_stage"
    /\ UNCHANGED <<mode, api_manager, last_commit, commits, gui_vars, thread_vars, cli_args,
                   cli_diff, cli_message, harness_vars>>
    /\ IF files_to_stage = <<>>
       THEN /\ cli_pc' = "exit_0"
            /\ reported' = "none"
            /\ UNCHANGED worktree
       ELSE \E staged_upto \in 0..Len(files_to_stage) :
            /\ worktree' = index_add(worktree, files_to_stage, staged_upto)
            /\ IF staged_upto = Len(files_to_stage)
               THEN cli_pc' = "staged" /\ reported' = "none"
               ELSE cli_pc' = "exit_1" /\ reported' = "Git Error"

\* the diff, its cut, the API key check, the generator call and the validation
cli_generate ==
    /\ mode = "cli"
    /\ cli_pc = "staged"
    /\ last_op' = "cli_generate"
    /\ UNCHANGED <<mode, api_manager, last_commit, repo_vars, gui_vars, thread_vars, cli_args,
                   harness_vars>>
    /\ IF api_manager = "None"
       THEN /\ cli_pc' = "exit_1"
            /\ reported' = "none"
            /\ UNCHANGED <<cli_diff, cli_message>>
       ELSE \E outcome \in BackendOutcomes :
            LET diff == git_diff_cached(worktree)
                message == generate_commit_message(outcome)
            IN  /\ cli_diff' = <<[raw |-> diff, text |-> cli_limit(diff)]>>
                /\ reported' = generate_report(outcome)
                /\ cli_message' = message
                /\ cli_pc' = IF is_valid_commit_message(message) THEN "generated" ELSE "exit_1"

\* commit_changes under --commit, the print without it
cli_commit ==
    /\ mode = "cli"
    /\ cli_pc = "generated"
    /\ last_op' = "cli_commit"
    /\ UNCHANGED <<mode, api_manager, gui_vars, thread_vars, cli_args, cli_diff, cli_message,
                   harness_vars>>
    /\ IF cli_args.commit
       THEN \E ok \in BOOLEAN :
            /\ IF ok
               THEN /\ commits' = Append(commits, cli_message)
                    /\ worktree' = index_commit(worktree)
                    /\ last_commit' = "ok"
                    /\ reported' = "Success"
               ELSE /\ last_commit' = "failed"
                    /\ reported' = "Git Error"
                    /\ UNCHANGED repo_vars
            /\ cli_pc' = IF cli_args.push THEN "push" ELSE "exit_0"
       ELSE /\ cli_pc' = "printed"
            /\ reported' = "none"
            /\ UNCHANGED <<repo_vars, last_commit>>

\* push_changes under --commit --push
cli_push ==
    /\ mode = "cli"
    /\ cli_pc = "push"
    /\ last_op' = "cli_push"
    /\ cli_pc' = "exit_0"
    /\ reported' \in {"Success", "Push Error", "Remote Not Found"}
    /\ UNCHANGED <<mode, api_manager, last_commit, repo_vars, gui_vars, thread_vars, cli_args,
                   cli_diff, cli_message, harness_vars>>

-----------------------------------------------------------------------------
(* The application *)

Next ==
    \/ \E t \in Threads : generate_message(t)
    \/ commit_message_clicked
    \/ push_commit
    \/ refresh_files
    \/ \E f \in Files : toggle_file(f)
    \/ \E text \in TypedTexts : type_message(text)
    \/ run_callback
    \/ \E t \in Threads : get_staged_diff(t)
    \/ \E t \in Threads : generate_attempt(t)
    \/ \E t \in Threads : update_text_area(t)
    \/ \E t \in Threads : ask_yes_no(t)
    \/ cli_stage
    \/ cli_generate
    \/ cli_commit
    \/ cli_push

Spec == Init /\ [][Next]_vars

-----------------------------------------------------------------------------
(* The validator harness: is_valid_commit_message applied to a candidate *)

RECURSIVE SeqsUpTo(_, _)
\* the sequences over alphabet of length at most n
SeqsUpTo(alphabet, n) ==
    IF n = 0 THEN {<<>>}
    ELSE LET shorter == SeqsUpTo(alphabet, n - 1)
         IN  shorter \cup { s \o <<c>> : s \in shorter, c \in alphabet }

CandidateHeads ==
    { CONVENTIONAL_TYPES[i] : i \in 1..Len(CONVENTIONAL_TYPES) }
    \cup { <<"w", "e", "i", "r", "d">>, <<"f", "e", "a", "t", "u", "r", "e">>,
           <<"F", "e", "a", "t">>, <<" ", "f", "e", "a", "t">>, <<"f", "e", "a">>,
           <<"x", "f", "i", "x">>, <<>> }

CandidateSeparators ==
    { <<":", " ">>, <<":">>, <<" ">>, <<>>, <<":", " ", " ">>, <<":", "\n">>,
      <<" ", ":">>, <<" ", ":", " ">>, <<":", "\t">> }

CandidateTails == SeqsUpTo({"x", " ", "\n"}, MaxDesc)

ExampleCandidates ==
    { <<"f", "e", "a", "t", ":", " ", "a", "d", "d", " ", "x">>,
      <<"f", "e", "a", "t", ":", "a", "d", "d", " ", "x">>,
      <<"w", "e", "i", "r", "d", ":", " ", "a", "d", "d", " ", "x">>,
      <<"f", "i", "x", ":", " ">> }

Candidates ==
    ExampleCandidates
    \cup { h \o s \o t : h \in CandidateHeads, s \in CandidateSeparators, t \in CandidateTails }

InitValidator ==
    /\ candidate \in Candidates
    /\ verdict = "unset"
    /\ LimiterIdle
    /\ ClassifierIdle
    /\ SessionIdle
    /\ ReplyIdle
    /\ BufferIdle
    /\ MainIdle

\* a call of is_valid_commit_message(candidate)
Validate ==
    /\ verdict = "unset"
    /\ verdict' = IF is_valid_commit_message(candidate) THEN "True" ELSE "False"
    /\ UNCHANGED <<candidate, diff_text, max_size, limited, relimited, classifier_vars,
                   session_vars, reply_vars, buffer_vars, main_vars>>

NextValidator == Validate

SpecValidator == InitValidator /\ [][NextValidator]_vars

-----------------------------------------------------------------------------
(* The limiter harness: limit_diff_size applied to a diff, then to its result *)

\* what a raw diff is assembled from: the separator, a line feed, another character
DiffTokens == { DiffSeparator, <<"\n">>, <<"x">> }

\* a diff starts with the header of its first file, or is no git diff
DiffStarts == { <<>>, <<"d", "i", "f", "f", " ", "-", "-", "g", "i", "t">> }

DiffTexts ==
    { start \o Concat(toks) : start \in DiffStarts, toks \in SeqsUpTo(DiffTokens, MaxToks) }

InitLimiter ==
    /\ diff_text \in DiffTexts
    /\ max_size \in 0..MaxCap
    /\ limited = <<>>
    /\ relimited = <<>>
    /\ ValidatorIdle
    /\ ClassifierIdle
    /\ SessionIdle
    /\ ReplyIdle
    /\ BufferIdle
    /\ MainIdle

\* limited_diff, was_truncated = limit_diff_size(diff_text, max_size)
Limit ==
    /\ limited = <<>>
    /\ limited' = <<limit_diff_size(diff_text, max_size)>>
    /\ UNCHANGED <<candidate, verdict, diff_text, max_size, relimited, classifier_vars,
                   session_vars, reply_vars, buffer_vars, main_vars>>

\* limit_diff_size applied again, to the text it returned
Relimit ==
    /\ limited # <<>>
    /\ relimited = <<>>
    /\ relimited' = <<limit_diff_size(limited[1].text, max_size)>>
    /\ UNCHANGED <<candidate, verdict, diff_text, max_size, limited, classifier_vars,
                   session_vars, reply_vars, buffer_vars, main_vars>>

NextLimiter == Limit \/ Relimit

SpecLimiter == InitLimiter /\ [][NextLimiter]_vars

-----------------------------------------------------------------------------
(* The classifier harness: populate_files and cli() applied to what git reports *)

\* the paths of the working tree
Paths == { <<"f">>, <<"g">>, <<"h">> }

\* a diff item: a modification of one path, or a rename of one path to another
ChangeItems ==
    { [change_type |-> "M", a_path |-> p, b_path |-> p] : p \in Paths }
    \cup { [change_type |-> "R", a_path |-> pq[1], b_path |-> pq[2]] :
            pq \in { x \in Paths \X Paths : x[1] # x[2] } }

\* the paths one diff item is about
ItemPaths(item) == {item.a_path, item.b_path}

\* what one diff query reports: no path comes up in two of its items
ChangeLists ==
    { s \in SeqsUpTo(ChangeItems, MaxChanges) :
        \A i, j \in 1..Len(s) : i # j => ItemPaths(s[i]) \cap ItemPaths(s[j]) = {} }

\* what the untracked-file listing reports: every path once
UntrackedLists ==
    { s \in SeqsUpTo(Paths, MaxChanges) : \A i, j \in 1..Len(s) : i # j => s[i] # s[j] }

\* the paths a staged rename took out of the index
RenamedAway(staged) ==
    { staged[i].a_path : i \in { k \in 1..Len(staged) : staged[k].change_type = "R" } }

\* the paths the staged items left in the index
StagedPaths(staged) == { staged[i].b_path : i \in 1..Len(staged) }

\* what git can report of one working tree: an unstaged item is about a path
\* of the index, so not one a staged rename took away, and an unstaged rename
\* does not end at a path the staged items left in the index; a path may have
\* a staged and an unstaged modification at once; an untracked path is in no
\* diff item
InitClassifier ==
    /\ staged_changes \in ChangeLists
    /\ changed_files \in ChangeLists
    /\ untracked_files \in UntrackedLists
    /\ \A j \in 1..Len(changed_files) :
        /\ changed_files[j].a_path \notin RenamedAway(staged_changes)
        /\ changed_files[j].change_type = "R" =>
            changed_files[j].b_path \notin StagedPaths(staged_changes)
    /\ \A i \in 1..Len(untracked_files) :
        /\ \A j \in 1..Len(staged_changes) : untracked_files[i] \notin ItemPaths(staged_changes[j])
        /\ \A j \in 1..Len(changed_files) : untracked_files[i] \notin ItemPaths(changed_files[j])
    /\ classified = <<>>
    /\ cli_staged = <<>>
    /\ ValidatorIdle
    /\ LimiterIdle
    /\ SessionIdle
    /\ ReplyIdle
    /\ BufferIdle
    /\ MainIdle

\* populate_files: the classification, the cut to max_files and the checkboxes
Populate ==
    /\ classified = <<>>
    /\ LET list == changed_files_list(staged_changes, changed_files, untracked_files)
           shown == displayed_files(list, MaxFiles)
       IN  classified' = << [ list |-> list,
                              displayed |-> shown,
                              file_vars |-> new_file_vars(shown),
                              warned |-> Len(list) > MaxFiles ] >>
    /\ UNCHANGED <<candidate, verdict, diff_text, max_size, limited, relimited,
                   staged_changes, changed_files, untracked_files, cli_staged, session_vars,
                   reply_vars, buffer_vars, main_vars>>

\* cli(): the collection of files_to_stage
CliCollect ==
    /\ cli_staged = <<>>
    /\ cli_staged' = << cli_files_to_stage(staged_changes, changed_files, untracked_files) >>
    /\ UNCHANGED <<candidate, verdict, diff_text, max_size, limited, relimited,
                   staged_changes, changed_files, untracked_files, classified, session_vars,
                   reply_vars, buffer_vars, main_vars>>

NextClassifier == Populate \/ CliCollect

SpecClassifier == InitClassifier /\ [][NextClassifier]_vars

-----------------------------------------------------------------------------
(* The session: the active repository handle, the interactive thread and the
   generation threads, each repository operation with a beginning and an end *)

\* the directories the user can start the program in or select: two working
\* trees, a bare repository, a directory outside any repository
Dirs == {"w1", "w2", "bare", "plain"}

DirKind(d) ==
    CASE d \in {"w1", "w2"} -> "worktree"
      [] d = "bare" -> "bare"
      [] OTHER -> "plain"

\* Repo(path, search_parent_directories=True): without a path the repository
\* of the current directory is opened; a bare repository has no working_tree_dir
Repo(path, current) ==
    LET epath == IF path = "None" THEN current ELSE path
    IN  IF DirKind(epath) = "plain"
        THEN [raises |-> "InvalidGitRepositoryError", git_dir |-> "None", bare |-> FALSE,
              working_tree_dir |-> "None"]
        ELSE [raises |-> "none", git_dir |-> epath, bare |-> DirKind(epath) = "bare",
              working_tree_dir |-> IF DirKind(epath) = "bare" THEN "None" ELSE epath]

\* RepoManager(path), that is get_repo(path): the repository, or the exception
get_repo(path, current) ==
    LET repo == Repo(path, current)
    IN  IF repo.raises # "none" THEN [raises |-> repo.raises, repo |-> "None"]
        ELSE IF repo.bare THEN [raises |-> "GitCommandError", repo |-> "None"]
        ELSE [raises |-> "none", repo |-> repo.git_dir]

\* the try block of change_directory and of __init__: Repo(selected_dir), then
\* RepoManager(repo.working_tree_dir)
open_working_tree(selected, current) ==
    LET repo == Repo(selected, current)
    IN  IF repo.raises # "none" THEN [raises |-> repo.raises, repo |-> "None"]
        ELSE get_repo(repo.working_tree_dir, current)

\* the box of the except clauses of change_directory
change_directory_report(raises) ==
    CASE raises = "none" -> "none"
      [] raises = "GitCommandError" -> "Invalid Repository"
      [] OTHER -> "Repository Error"

\* the box of the except clauses of set_repository
set_repository_report(raises) ==
    CASE raises = "none" -> "none"
      [] raises = "GitCommandError" -> "Git Repository Error"
      [] OTHER -> "Repository Error"

\* the failure branches leaving the buttons enabled
buttons_left_enabled == "normal"

\* enable_buttons: the state it gives the generate, commit, push and refresh buttons
enable_buttons == "normal"

\* disable_buttons: the state it gives them
disable_buttons == "disabled"

\* every operation on the repository counted as one that writes the index
RepoOps == {"unstage_all_files", "stage_files", "commit_changes", "get_staged_diff"}

\* the operations that write the index: unstage_all_files, stage_files, commit_changes
RepoWriteOps == {"unstage_all_files", "stage_files", "commit_changes"}

\* the operations _generate_message_thread is in
TaskOps == {"get_staged_diff", "generate_commit_message"}

\* the target of the thread called in the handler itself
thread_of_generation_inline(t) == "MainThread"

\* threading.Thread(target=self._generate_message_thread, ...).start(): the
\* thread that runs the generation started for slot t
thread_of_generation(t) == t

\* the operations in progress: which thread is in which operation on which repository
Running ==
    { [thread |-> "MainThread", op |-> main_op.op, repo |-> main_op.repo] :
        x \in { y \in {1} : main_op.op # "idle" } }
    \cup { [thread |-> thread_of_generation(t), op |-> task[t].pc, repo |-> task[t].repo] :
            t \in { u \in Tasks : task[u].pc \in TaskOps } }

\* the Tk main loop takes the next event when the interactive thread is in no operation
mainloop_idle == \A r \in Running : r.thread # "MainThread"

\* main() with the GUI about to be constructed in some directory
InitSession ==
    /\ cwd \in Dirs
    /\ repo_manager = "None"
    /\ repo_path = "None"
    /\ buttons = "unbuilt"
    /\ main_op = [op |-> "idle", repo |-> "None"]
    /\ task = [t \in Tasks |-> [pc |-> "idle", repo |-> "None"]]
    /\ buffer_from = "none"
    /\ session_op = [op |-> "none", arg |-> "None"]
    /\ session_report = "none"
    /\ ValidatorIdle
    /\ LimiterIdle
    /\ ClassifierIdle
    /\ ReplyIdle
    /\ BufferIdle
    /\ MainIdle

\* what every step of the session leaves alone
SessionFrame ==
    UNCHANGED <<candidate, verdict, diff_text, max_size, limited, relimited, classifier_vars,
                reply_vars, buffer_vars, main_vars>>

\* CommitGeneratorGUI.__init__: the repository of the current directory, and
\* the directory dialog of prompt_repository_selection when that one is bare
startup ==
    /\ buttons = "unbuilt"
    /\ LET first == open_working_tree(cwd, cwd)
       IN  IF first.raises = "none"
           THEN /\ repo_manager' = first.repo
                /\ repo_path' = cwd
                /\ buttons' = enable_buttons
                /\ session_op' = [op |-> "__init__", arg |-> cwd]
                /\ session_report' = "none"
           ELSE IF first.raises = "GitCommandError"
           THEN \E selected \in Dirs \cup {""} :
                LET opened == open_working_tree(selected, cwd)
                IN  /\ repo_manager' = IF selected # "" /\ opened.raises = "none"
                                       THEN opened.repo ELSE repo_manager
                    /\ repo_path' = IF selected # "" /\ opened.raises = "none"
                                    THEN Repo(selected, cwd).working_tree_dir ELSE cwd
                    /\ buttons' = IF selected = "" THEN "disabled"
                                  ELSE IF opened.raises = "none" THEN enable_buttons
                                  ELSE disable_buttons
                    /\ session_op' = [op |-> "change_directory", arg |-> selected]
                    /\ session_report' = IF selected = "" THEN "Select Repository"
                                         ELSE IF opened.raises = "none" THEN "Select Repository"
                                         ELSE change_directory_report(opened.raises)
           ELSE /\ buttons' = "disabled"
                /\ repo_path' = cwd
                /\ session_op' = [op |-> "__init__", arg |-> cwd]
                /\ session_report' = "Repository Error"
                /\ UNCHANGED repo_manager
    /\ UNCHANGED <<cwd, main_op, task, buffer_from>>
    /\ SessionFrame

\* change_directory: the directory dialog, the new RepoManager, the buttons
change_directory(selected) ==
    /\ buttons # "unbuilt"
    /\ mainloop_idle
    /\ session_op' = [op |-> "change_directory", arg |-> selected]
    /\ IF selected = ""
       THEN /\ session_report' = "none"
            /\ UNCHANGED <<repo_manager, repo_path, buttons>>
       ELSE LET opened == open_working_tree(selected, cwd)
            IN  /\ repo_manager' = IF opened.raises = "none" THEN opened.repo ELSE repo_manager
                /\ repo_path' = IF opened.raises = "none"
                                THEN Repo(selected, cwd).working_tree_dir ELSE repo_path
                /\ buttons' = IF opened.raises = "none" THEN enable_buttons ELSE disable_buttons
                /\ session_report' = change_directory_report(opened.raises)
    /\ UNCHANGED <<cwd, main_op, task, buffer_from>>
    /\ SessionFrame

\* set_repository(path)
set_repository(path) ==
    /\ buttons # "unbuilt"
    /\ mainloop_idle
    /\ session_op' = [op |-> "set_repository", arg |-> path]
    /\ LET opened == get_repo(path, cwd)
       IN  /\ repo_manager' = IF opened.raises = "none" THEN opened.repo ELSE repo_manager
           /\ repo_path' = IF opened.raises = "none" THEN path ELSE repo_path
           /\ buttons' = IF opened.raises = "none" THEN enable_buttons ELSE disable_buttons
           /\ session_report' = set_repository_report(opened.raises)
    /\ UNCHANGED <<cwd, main_op, task, buffer_from>>
    /\ SessionFrame

\* the Generate button: generate_message enters unstage_all_files
click_generate ==
    /\ buttons = "normal"
    /\ mainloop_idle
    /\ \E t \in Tasks : task[t].pc = "idle"
    /\ main_op' = [op |-> "unstage_all_files", repo |-> repo_manager]
    /\ session_op' = [op |-> "generate_message", arg |-> "None"]
    /\ session_report' = "none"
    /\ UNCHANGED <<cwd, repo_manager, repo_path, buttons, task, buffer_from>>
    /\ SessionFrame

\* unstage_all_files returns: stage_files is entered, or the handler returns
unstage_all_files_returns ==
    /\ main_op.op = "unstage_all_files"
    /\ session_op' = [op |-> "unstage_all_files", arg |-> "None"]
    /\ \E ok \in BOOLEAN :
        /\ main_op' = IF ok THEN [main_op EXCEPT !.op = "stage_files"]
                      ELSE [op |-> "idle", repo |-> "None"]
        /\ session_report' = IF ok THEN "none" ELSE "Git Error"
    /\ UNCHANGED <<cwd, repo_manager, repo_path, buttons, task, buffer_from>>
    /\ SessionFrame

\* stage_files returns: the generation thread is started, and the handler returns
stage_files_returns ==
    /\ main_op.op = "stage_files"
    /\ session_op' = [op |-> "stage_files", arg |-> "None"]
    /\ main_op' = [op |-> "idle", repo |-> "None"]
    /\ \E ok \in BOOLEAN :
        /\ session_report' = IF ok THEN "none" ELSE "Git Error"
        /\ IF ok
           THEN \E t \in Tasks :
                /\ task[t].pc = "idle"
                /\ task' = [task EXCEPT ![t] = [pc |-> "started", repo |-> "None"]]
           ELSE UNCHANGED task
    /\ UNCHANGED <<cwd, repo_manager, repo_path, buttons, buffer_from>>
    /\ SessionFrame

\* the Commit button: commit_message enters commit_changes
click_commit ==
    /\ buttons = "normal"
    /\ mainloop_idle
    /\ main_op' = [op |-> "commit_changes", repo |-> repo_manager]
    /\ session_op' = [op |-> "commit_message", arg |-> "None"]
    /\ session_report' = "none"
    /\ UNCHANGED <<cwd, repo_manager, repo_path, buttons, task, buffer_from>>
    /\ SessionFrame

\* commit_changes returns, and the handler with it
commit_changes_returns ==
    /\ main_op.op = "commit_changes"
    /\ main_op' = [op |-> "idle", repo |-> "None"]
    /\ session_op' = [op |-> "commit_changes", arg |-> "None"]
    /\ session_report' \in {"Success", "Git Error"}
    /\ UNCHANGED <<cwd, repo_manager, repo_path, buttons, task, buffer_from>>
    /\ SessionFrame

\* the generation thread enters self.repo_manager.get_staged_diff()
task_get_staged_diff(t) ==
    /\ task[t].pc = "started"
    /\ task' = [task EXCEPT ![t] = [pc |-> "get_staged_diff", repo |-> repo_manager]]
    /\ session_op' = [op |-> "get_staged_diff", arg |-> "None"]
    /\ session_report' = "none"
    /\ UNCHANGED <<cwd, repo_manager, repo_path, buttons, main_op, buffer_from>>
    /\ SessionFrame

\* get_staged_diff returns and the thread enters generate_commit_message
task_generate_commit_message(t) ==
    /\ task[t].pc = "get_staged_diff"
    /\ task' = [task EXCEPT ![t].pc = "generate_commit_message"]
    /\ session_op' = [op |-> "generate_commit_message", arg |-> "None"]
    /\ session_report' = "none"
    /\ UNCHANGED <<cwd, repo_manager, repo_path, buttons, main_op, buffer_from>>
    /\ SessionFrame

\* generate_commit_message returns: a valid message is handed to
\* update_text_area, or the thread ends without one
task_returns(t) ==
    /\ task[t].pc = "generate_commit_message"
    /\ \E valid \in BOOLEAN :
        task' = [task EXCEPT ![t] = IF valid THEN [@ EXCEPT !.pc = "posted"]
                                     ELSE [pc |-> "idle", repo |-> "None"]]
    /\ session_op' = [op |-> "update_text_area", arg |-> "None"]
    /\ session_report' = "none"
    /\ UNCHANGED <<cwd, repo_manager, repo_path, buttons, main_op, buffer_from>>
    /\ SessionFrame

\* the interactive thread runs the callbacks of update_text_area: the message
\* is in the buffer
deliver(t) ==
    /\ task[t].pc = "posted"
    /\ mainloop_idle
    /\ buffer_from' = task[t].repo
    /\ task' = [task EXCEPT ![t] = [pc |-> "idle", repo |-> "None"]]
    /\ session_op' = [op |-> "text_area.insert", arg |-> "None"]
    /\ session_report' = "none"
    /\ UNCHANGED <<cwd, repo_manager, repo_path, buttons, main_op>>
    /\ SessionFrame

NextSession ==
    \/ startup
    \/ \E selected \in Dirs \cup {""} : change_directory(selected)
    \/ \E path \in Dirs : set_repository(path)
    \/ click_generate
    \/ unstage_all_files_returns
    \/ stage_files_returns
    \/ click_commit
    \/ commit_changes_returns
    \/ \E t \in Tasks : task_get_staged_diff(t)
    \/ \E t \in Tasks : task_generate_commit_message(t)
    \/ \E t \in Tasks : task_returns(t)
    \/ \E t \in Tasks : deliver(t)

SpecSession == InitSession /\ [][NextSession]_vars

-----------------------------------------------------------------------------
(* The reply harness: one attempt of the retry loop applied to a backend reply *)

\* what the backend puts around the text of a reply
ReplyPads == { <<>>, <<" ">>, <<"\n">> }

\* replies of more than one line: a subject, an empty line and a body
ExampleReplies ==
    { <<"f", "i", "x", ":", " ", "y", "\n", "\n", "b", "o", "d", "y">>,
      <<"f", "e", "a", "t", ":", " ", "a", "d", "d", " ", "x", "\n", "-", " ", "y">> }

\* the contents chat_completion.choices[0].message.content can hold
ReplyContents ==
    { l \o c \o r : l \in ReplyPads, c \in Candidates \cup ExampleReplies, r \in ReplyPads }

InitReply ==
    /\ reply_content \in ReplyContents
    /\ reply_message = <<>>
    /\ reply_delivered = <<>>
    /\ ValidatorIdle
    /\ LimiterIdle
    /\ ClassifierIdle
    /\ SessionIdle
    /\ BufferIdle
    /\ MainIdle

\* one attempt: commit_message = generate_commit_message(diff_text), the test
\* of the loop, and update_text_area(commit_message) when it passes
Attempt ==
    /\ reply_message = <<>>
    /\ LET message == generate_commit_message([kind |-> "reply", content |-> reply_content])
       IN  /\ reply_message' = <<message>>
           /\ reply_delivered' = IF accepts_reply(message) THEN <<message>> ELSE <<>>
    /\ UNCHANGED <<candidate, verdict, diff_text, max_size, limited, relimited, classifier_vars,
                   session_vars, reply_content, buffer_vars, main_vars>>

NextReply == Attempt

SpecReply == InitReply /\ [][NextReply]_vars

-----------------------------------------------------------------------------
(* The buffer harness: the generation threads of two Generate clicks, the
   callbacks they register and the interactive thread that runs them *)

\* the replies the generator gives that pass the test of the loop
AcceptedReplies ==
    { <<"f", "e", "a", "t", ":", " ", "x">>, <<"f", "i", "x", ":", " ", "y">> }

\* the GUI with no generation started yet and an empty buffer
InitBuffer ==
    /\ BufferIdle
    /\ ValidatorIdle
    /\ LimiterIdle
    /\ ClassifierIdle
    /\ SessionIdle
    /\ ReplyIdle
    /\ MainIdle

\* what every step of the buffer harness leaves alone
BufferFrame ==
    UNCHANGED <<candidate, verdict, diff_text, max_size, limited, relimited, classifier_vars,
                session_vars, reply_vars, main_vars>>

\* generate_message: a Generate click starts a generation thread, whether or
\* not another one is running
start_generation(t) ==
    /\ gen[t].pc = "idle"
    /\ gen' = [gen EXCEPT ![t] = [pc |-> "loop", message |-> <<>>]]
    /\ UNCHANGED <<timers, buffer, last_insert>>
    /\ BufferFrame

\* an attempt with an accepted reply, and the first line of update_text_area:
\* the delete is registered
register_delete(t, message) ==
    /\ gen[t].pc = "loop"
    /\ Len(timers) < MaxTimers
    /\ accepts_reply(message)
    /\ timers' = Append(timers, Callback("delete", <<>>, ""))
    /\ gen' = [gen EXCEPT ![t] = [pc |-> "update_text_area", message |-> message]]
    /\ UNCHANGED <<buffer, last_insert>>
    /\ BufferFrame

\* the second line of update_text_area: the insert is registered; the thread returns
register_insert(t) ==
    /\ gen[t].pc = "update_text_area"
    /\ Len(timers) < MaxTimers
    /\ timers' = Append(timers, Callback("insert", gen[t].message, ""))
    /\ gen' = [gen EXCEPT ![t] = [pc |-> "idle", message |-> <<>>]]
    /\ UNCHANGED <<buffer, last_insert>>
    /\ BufferFrame

\* the thread ends without a delivery: an empty diff, an error, or the prompt
\* after the loop, whose yes registers the delete of clear_text_area
ends_without_reply(t) ==
    /\ gen[t].pc = "loop"
    /\ Len(timers) < MaxTimers
    /\ \E response \in BOOLEAN :
        timers' = IF response THEN Append(timers, Callback("delete", <<>>, "")) ELSE timers
    /\ gen' = [gen EXCEPT ![t] = [pc |-> "idle", message |-> <<>>]]
    /\ UNCHANGED <<buffer, last_insert>>
    /\ BufferFrame

\* the Tk main loop runs the oldest registered callback
run_timer ==
    /\ timers # <<>>
    /\ timers' = Tail(timers)
    /\ LET cb == Head(timers)
       IN  /\ buffer' = IF cb.op = "delete" THEN <<>> ELSE buffer \o cb.message
           /\ last_insert' = IF cb.op = "insert" THEN cb.message ELSE last_insert
    /\ UNCHANGED gen
    /\ BufferFrame

NextBuffer ==
    \/ \E t \in Tasks : start_generation(t)
    \/ \E t \in Tasks, message \in AcceptedReplies : register_delete(t, message)
    \/ \E t \in Tasks : register_insert(t)
    \/ \E t \in Tasks : ends_without_reply(t)
    \/ run_timer

SpecBuffer == InitBuffer /\ [][NextBuffer]_vars

-----------------------------------------------------------------------------
(* Properties of is_valid_commit_message, under SpecValidator *)

\* s is a type tag of CONVENTIONAL_TYPES, a colon, one space and a first
\* description character, which is any character but a line feed
HasCommitGrammar(s) ==
    \E i \in 1..Len(CONVENTIONAL_TYPES) :
        LET n == Len(CONVENTIONAL_TYPES[i])
        IN  /\ Len(s) >= n + 3
            /\ \A k \in 1..n : s[k] = CONVENTIONAL_TYPES[i][k]
            /\ s[n + 1] = ":"
            /\ s[n + 2] = " "
            /\ s[n + 3] # "\n"

\* C1: is_valid_commit_message(s) is true exactly when s starts with one of the
\* twelve type tags, a colon, one space and at least one description character
\* (a character of the line: not a line feed), and false for every other string:
\* "feat:add x", "weird: add x" and "fix: " are rejected, "feat: add x" accepted.
C1_ValidatorGrammar ==
    /\ Len(CONVENTIONAL_TYPES) = 12
    /\ verdict # "unset" =>
        /\ (verdict = "True") <=> HasCommitGrammar(candidate)
        /\ candidate = <<"f", "e", "a", "t", ":", " ", "a", "d", "d", " ", "x">> => verdict = "True"
        /\ candidate = <<"f", "e", "a", "t", ":", "a", "d", "d", " ", "x">> => verdict = "False"
        /\ candidate = <<"w", "e", "i", "r", "d", ":", " ", "a", "d", "d", " ", "x">> => verdict = "False"
        /\ candidate = <<"f", "i", "x", ":", " ">> => verdict = "False"

\* a message of the last type tag, remove, has been accepted
C1_Witness ==
    /\ verdict = "True"
    /\ candidate = <<"r", "e", "m", "o", "v", "e", ":", " ", "x">>

-----------------------------------------------------------------------------
(* Properties of one attempt of the retry loop, under SpecReply *)

\* C21: a message that passed validation and was delivered as the generated
\* message is on a single line: it holds no line feed.
C21_DeliveredOnOneLine ==
    reply_delivered # <<>> =>
        \A i \in 1..Len(reply_delivered[1]) : reply_delivered[1][i] # "\n"

-----------------------------------------------------------------------------
(* Properties of limit_diff_size, under SpecLimiter *)

\* the lengths at which a prefix of the diff ends with a whole file diff: the
\* end of the diff, and every place where a separator follows
CutPoints(text) ==
    { i \in 0..Len(text) : i = Len(text) \/ StartsWith(SubSeq(text, i + 1, Len(text)), DiffSeparator) }

\* result holds whole file diffs of text only: nothing, the whole text, or the
\* first file diffs up to a cut point, behind the separator that
\* limit_diff_size puts in front of every piece it appends
HoldsWholeFileDiffs(text, result) ==
    \/ result = <<>>
    \/ result = text
    \/ /\ StartsWith(result, DiffSeparator)
       /\ LET kept == SubSeq(result, Len(DiffSeparator) + 1, Len(result))
          IN  StartsWith(text, kept) /\ Len(kept) \in CutPoints(text)

\* C5: limit_diff_size never returns a partial segment: every file diff of the
\* raw diff is in the returned text whole or not at all.
C5_NoPartialSegment ==
    limited # <<>> => HoldsWholeFileDiffs(diff_text, limited[1].text)

\* a diff was cut after its first file diffs, and a later one was left out
C5_Witness ==
    /\ limited # <<>>
    /\ limited[1].truncated
    /\ limited[1].text # <<>>
    /\ Len(split(limited[1].text, DiffSeparator)) < Len(split(diff_text, DiffSeparator))
    /\ Len(split(diff_text, DiffSeparator)) >= 3

\* C6: the text returned by limit_diff_size is the concatenation of the first k
\* file diffs of the raw diff, with no character added, removed or reordered: a
\* prefix of the raw diff that ends at a cut point.
C6_PrefixOfWholeSegments ==
    limited # <<>> =>
        \/ limited[1].text = <<>>
        \/ /\ StartsWith(diff_text, limited[1].text)
           /\ Len(limited[1].text) \in CutPoints(diff_text)

\* C7 as stated: limiting the limited text again gives the same text and the
\* same truncated flag.
C7_RelimitIsNoOp ==
    relimited # <<>> => relimited[1] = limited[1]

\* C7 as amended: limiting the limited text again gives the same text, and
\* reports truncated = false.
C7_RelimitKeepsText ==
    relimited # <<>> =>
        /\ relimited[1].text = limited[1].text
        /\ relimited[1].truncated = FALSE

\* a truncated, non-empty result has been limited again
C7_Witness ==
    /\ relimited # <<>>
    /\ limited[1].truncated
    /\ limited[1].text # <<>>

\* the first k segments of a diff as the limiter appends them, each behind the
\* boundary token
AppendedSegments(text, k) ==
    LET segments == split(text, DiffSeparator)
    IN  Concat([i \in 1..k |-> DiffSeparator \o segments[i]])

C25_TruncatedFlag ==
    limited # <<>> =>
        /\ limited[1].truncated <=> Len(limited[1].text) < Len(diff_text)
        /\ limited[1].truncated <=> Len(diff_text) > max_size
        /\ Len(diff_text) <= max_size =>
            limited[1].text = diff_text /\ limited[1].truncated = FALSE

\* a diff of two file diffs, one character longer than the cap, came back
\* without its second file diff and with truncated = true
C25_Witness ==
    /\ limited # <<>>
    /\ Len(split(diff_text, DiffSeparator)) = 2
    /\ Len(diff_text) = max_size + 1
    /\ limited[1].truncated
    /\ limited[1].text # <<>>

-----------------------------------------------------------------------------
(* Properties of the change classifier, under SpecClassifier *)

\* path is what an entry shows for a diff item: both paths around an arrow
\* for a rename, the path of the item otherwise
ShowsItem(path, item) ==
    IF item.change_type = "R"
    THEN path = item.a_path \o <<" ", "-", ">", " ">> \o item.b_path
    ELSE path = item.a_path

\* the i-th path of a list is the one of the i-th reported change, counting the
\* staged items, then the unstaged items, then the untracked files
ReportedAt(path, i) ==
    LET n1 == Len(staged_changes)
        n2 == Len(changed_files)
    IN  IF i <= n1 THEN ShowsItem(path, staged_changes[i])
        ELSE IF i <= n1 + n2 THEN ShowsItem(path, changed_files[i - n1])
        ELSE path = untracked_files[i - n1 - n2]

\* the tag an entry at place i may carry
TagAt(status, i) ==
    LET n1 == Len(staged_changes)
        n2 == Len(changed_files)
    IN  IF i <= n1
        THEN status = (IF staged_changes[i].change_type = "R" THEN "renamed" ELSE "staged")
        ELSE IF i <= n1 + n2
        THEN status = (IF changed_files[i - n1].change_type = "R" THEN "renamed" ELSE "unstaged")
        ELSE status = "untracked"

ReportedChanges == Len(staged_changes) + Len(changed_files) + Len(untracked_files)

\* C18: the classified change list holds the staged entries first, then the
\* unstaged, then the untracked, each partition in the order the version-control
\* layer reported it; so do the displayed list, a prefix of it, and the
\* files_to_stage of cli().
C18_PartitionOrder ==
    /\ classified # <<>> =>
        LET list == classified[1].list
            shown == classified[1].displayed
        IN  /\ Len(list) = ReportedChanges
            /\ \A i \in 1..Len(list) : ReportedAt(list[i].path, i) /\ TagAt(list[i].status, i)
            /\ Len(shown) <= Len(list)
            /\ \A i \in 1..Len(shown) : shown[i] = list[i]
    /\ cli_staged # <<>> =>
        /\ Len(cli_staged[1]) = ReportedChanges
        /\ \A i \in 1..Len(cli_staged[1]) : ReportedAt(cli_staged[1][i], i)

\* a list with an entry of each partition, a rename among them, was classified
C18_Witness ==
    /\ classified # <<>>
    /\ cli_staged # <<>>
    /\ Len(staged_changes) >= 1 /\ Len(changed_files) >= 1 /\ Len(untracked_files) >= 1
    /\ \E i \in 1..Len(classified[1].list) : classified[1].list[i].status = "renamed"
    /\ staged_changes # changed_files

\* C19: the classifier returns one entry per reported change with its status
\* tag, a rename as one renamed entry, no path in two entries, and every
\* displayed entry has a checkbox variable of its own.
C19_OneEntryPerPath ==
    classified # <<>> =>
        LET list == classified[1].list
            shown == classified[1].displayed
        IN  /\ Len(list) = ReportedChanges
            /\ \A i \in 1..Len(list) : ReportedAt(list[i].path, i) /\ TagAt(list[i].status, i)
            /\ \A i, j \in 1..Len(list) : i # j => list[i].path # list[j].path
            /\ Cardinality(DOMAIN classified[1].file_vars) = Len(shown)

-----------------------------------------------------------------------------
(* Properties of the message buffer, under SpecBuffer *)

\* C26: when the generation threads have ended and every callback has run,
\* the buffer is empty or holds exactly one validated reply, the last one
\* delivered, never two replies in a row or a mixture of them.
C26_OneReplyInBuffer ==
    ((\A t \in Tasks : gen[t].pc = "idle") /\ timers = <<>> /\ buffer # <<>>) =>
        /\ buffer = last_insert
        /\ is_valid_commit_message(buffer)
        /\ \A i \in 1..Len(buffer) : buffer[i] # "\n"
        /\ buffer \in AcceptedReplies

-----------------------------------------------------------------------------
(* Properties of the session, under SpecSession *)

\* C13: every backend call of a generate request, with the validation that
\* follows it, runs in a thread that is not the interactive thread, and while
\* one is in flight the interactive thread, unless it is in an operation of
\* its own, takes the next user event: a directory change, and a commit when
\* the buttons are enabled.
C13_GenerationOffInteractiveThread ==
    /\ \A r \in Running : r.op = "generate_commit_message" => r.thread # "MainThread"
    /\ ((\E t \in Tasks : task[t].pc = "generate_commit_message") /\ main_op.op = "idle") =>
        /\ ENABLED (\E selected \in Dirs : change_directory(selected))
        /\ buttons = "normal" => ENABLED click_commit

\* the interactive thread is in a commit while both generation threads are in
\* a backend call
C13_Witness ==
    /\ main_op.op = "commit_changes"
    /\ \A t \in Tasks : task[t].pc = "generate_commit_message"

\* C15: at no time are two of the operations unstage_all_files, stage_files
\* and commit_changes in progress, whatever the user clicks and wherever the
\* generation threads are.
C15_OneIndexWriterAtATime ==
    \A r1, r2 \in Running :
        (r1.op \in RepoWriteOps /\ r2.op \in RepoWriteOps) => r1 = r2

\* the interactive thread is committing while one generation thread reads the
\* staged diff and the other is in a backend call
C15_Witness ==
    /\ main_op.op = "commit_changes"
    /\ \E t \in Tasks : task[t].pc = "get_staged_diff"
    /\ \E t \in Tasks : task[t].pc = "generate_commit_message"

\* C16: the repository handle is not replaced while a generation is
\* outstanding: a generation in flight read its diff from the active handle,
\* and a message put into the buffer was generated from the diff of the handle
\* that is active at that moment.
C16_HandleNotReplacedInFlight ==
    /\ \A t \in Tasks :
        task[t].pc \in {"get_staged_diff", "generate_commit_message", "posted"} =>
            task[t].repo = repo_manager
    /\ session_op.op = "text_area.insert" => buffer_from = repo_manager

\* the titles of the boxes that report a repository that cannot be used
RepositoryErrors == {"Invalid Repository", "Git Repository Error", "Repository Error"}

\* C17: the active handle is unset or wraps a repository with a working tree,
\* and a change_directory or set_repository call given a bare repository ends
\* with an error report.
C17_BareNeverActive ==
    /\ repo_manager # "None" => DirKind(repo_manager) = "worktree"
    /\ (/\ session_op.op \in {"change_directory", "set_repository"}
        /\ DirKind(session_op.arg) = "bare") => session_report \in RepositoryErrors

\* the step is a change_directory or set_repository call of the GUI in use
C28_DirectoryStep ==
    /\ buttons # "unbuilt"
    /\ session_op'.op \in {"change_directory", "set_repository"}

\* C28, the step part: a directory change that fails keeps repo_manager and
\* repo_path and disables the buttons; a cancelled dialog changes neither the
\* handle, the path nor the buttons and reports nothing; the buttons become
\* enabled only in a step that sets a handle and reports no error.
C28_FailedChangeStep ==
    /\ (C28_DirectoryStep /\ session_report' \in RepositoryErrors) =>
        /\ repo_manager' = repo_manager
        /\ repo_path' = repo_path
        /\ buttons' = "disabled"
    /\ (C28_DirectoryStep /\ session_op' = [op |-> "change_directory", arg |-> ""]) =>
        /\ repo_manager' = repo_manager
        /\ repo_path' = repo_path
        /\ buttons' = buttons
        /\ session_report' = "none"
    /\ (buttons # "normal" /\ buttons' = "normal") =>
        /\ session_op'.op \in {"__init__", "change_directory", "set_repository"}
        /\ session_report' \notin RepositoryErrors
        /\ repo_manager' # "None"
        /\ session_op'.op = "set_repository" => repo_manager' = session_op'.arg
    /\ (buttons = "unbuilt" /\ session_report' \in RepositoryErrors) =>
        /\ repo_manager' = "None"
        /\ buttons' = "disabled"

\* C28: a failed or cancelled directory change never replaces the handle:
\* when change_directory or set_repository fails, repo_manager and repo_path
\* keep their values and the generate, commit, push and refresh buttons are
\* disabled; the buttons are enabled only after a handle was set
\* successfully; a cancelled dialog changes nothing.
C28_FailedChangeKeepsHandle ==
    /\ [](buttons = "normal" => repo_manager # "None")
    /\ [][C28_FailedChangeStep]_vars

\* started in w1 and moved to w2, the GUI has been given a directory outside
\* any repository: the handle and the path are those of w2, the buttons disabled
C28_Witness ==
    /\ session_op.op \in {"change_directory", "set_repository"}
    /\ session_op.arg = "plain"
    /\ session_report = "Repository Error"
    /\ cwd = "w1"
    /\ repo_manager = "w2"
    /\ repo_path = "w2"
    /\ buttons = "disabled"

-----------------------------------------------------------------------------
(* Properties of the generation loop, the commit and push handlers and cli(),
   under Spec *)

\* C2: a backend reply becomes the generated message (handed to
\* update_text_area and waiting as an insert callback in the GUI; committed or
\* printed by cli()) only if it is not empty and is_valid_commit_message
\* accepted it.
C2_OnlyValidRepliesDelivered ==
    /\ \A t \in Threads :
        pc[t] = "insert" =>
            commit_message[t] # <<>> /\ is_valid_commit_message(commit_message[t])
    /\ \A i \in 1..Len(tk_queue) :
        tk_queue[i].op = "insert" =>
            tk_queue[i].message # <<>> /\ is_valid_commit_message(tk_queue[i].message)
    /\ mode = "cli" =>
        /\ last_op = "cli_commit" =>
            cli_message # <<>> /\ is_valid_commit_message(cli_message)
        /\ \A i \in 1..Len(commits) :
            commits[i] # <<>> /\ is_valid_commit_message(commits[i])

\* a run delivers a reply after an earlier reply of the same run was rejected
C2_Witness ==
    \E t \in Threads : pc[t] = "insert" /\ calls[t] >= 2

\* C3, the state part: a run never makes more than max_retries generator
\* calls, is in the loop only before its max_retries-th call, and is at the
\* manual-entry prompt only after exactly max_retries calls, the last one
\* rejected.
C3_CallsWithinMaxRetries ==
    \A t \in Threads :
        /\ calls[t] <= MaxRetries
        /\ pc[t] = "loop" => calls[t] = attempt[t] - 1 /\ calls[t] < MaxRetries
        /\ pc[t] = "prompt" => calls[t] = MaxRetries /\ ~accepts_reply(commit_message[t])

\* C3, the step part: a generator call whose reply is rejected is followed by
\* the next attempt while fewer than max_retries calls were made, and by the
\* manual-entry prompt at the max_retries-th call.
C3_RejectedReplyStep ==
    \A t \in Threads :
        (calls'[t] = calls[t] + 1 /\ ~accepts_reply(commit_message'[t])) =>
            IF calls'[t] < MaxRetries
            THEN pc'[t] = "loop" /\ attempt'[t] = attempt[t] + 1
            ELSE pc'[t] = "prompt" /\ calls'[t] = MaxRetries

\* C3: with a generator whose replies are all rejected, the retry loop makes
\* exactly max_retries (3) generator calls and then shows the manual-entry
\* prompt; no run makes more than max_retries calls.
C3_ExactlyMaxRetriesCalls ==
    [](C3_CallsWithinMaxRetries) /\ [][C3_RejectedReplyStep]_vars

\* a run is at the manual-entry prompt after max_retries rejected replies
C3_Witness ==
    \E t \in Threads : pc[t] = "prompt" /\ calls[t] = MaxRetries

\* C4: after a generator call failed with a fatal error kind (invalid
\* credential, payload too large) the run makes no further generator call.
C4_FatalFailureStopsRun ==
    \A t \in Threads : fatal_at[t] # 0 => calls[t] = fatal_at[t]

\* C8: the diff text submitted to the generator, by the GUI thread and by
\* cli(), is the whole staged diff or is cut where a file diff ends.
C8_SubmittedDiffCutAtFileBoundary ==
    /\ \A t \in Threads :
        staged_diff[t] # <<>> =>
            HoldsWholeFileDiffs(staged_diff[t][1].raw, staged_diff[t][1].text)
    /\ cli_diff # <<>> => HoldsWholeFileDiffs(cli_diff[1].raw, cli_diff[1].text)

\* C9: push_changes is called, by the Push button and by cli(), only when the
\* commit_changes call before it returned success.
C9_PushOnlyAfterSuccessfulCommit ==
    last_op \in {"push_commit", "cli_push"} => last_commit = "ok"

\* the buffer holds nothing but whitespace
BufferIsBlank == \A i \in 1..Len(text_area) : text_area[i] \in Whitespace

\* C10: a commit request whose message is empty after trimming whitespace is
\* rejected with the "No Commit Message" report; no commit is created, and the
\* index, the file list and the buffer stay as they were.
C10_EmptyMessageRejected ==
    [][ (last_op' = "commit_message" /\ BufferIsBlank) =>
            /\ reported' = "No Commit Message"
            /\ commits' = commits
            /\ worktree' = worktree
            /\ file_vars' = file_vars
            /\ text_area' = text_area
            /\ last_commit' = last_commit ]_vars

\* a commit of a buffer of blanks has been rejected while a file was staged
C10_Witness ==
    /\ last_op = "commit_message"
    /\ reported = "No Commit Message"
    /\ text_area = <<" ", "\n", " ">>
    /\ \E f \in Files : worktree[f] = "staged"

\* C11: a commit request made while nothing is staged creates no commit and
\* is not reported as a success, whatever the message in the buffer.
C11_NothingStagedRejected ==
    [][ (last_op' = "commit_message" /\ \A f \in Files : worktree[f] # "staged") =>
            commits' = commits /\ reported' # "Success" ]_vars

\* C12: a commit request that fails is reported (the commit error box, or the
\* missing-message warning) and leaves the index, the commits, the displayed
\* file list and the buffer as they were; a commit request that succeeds
\* creates a commit, clears the buffer and displays the file list anew.
C12_FailedCommitKeepsState ==
    [][ last_op' = "commit_message" =>
            IF reported' = "Success"
            THEN /\ commits' # commits
                 /\ text_area' = <<>>
                 /\ file_vars' = populated(worktree')
            ELSE /\ reported' \in {"Git Error", "No Commit Message"}
                 /\ commits' = commits
                 /\ worktree' = worktree
                 /\ file_vars' = file_vars
                 /\ text_area' = text_area ]_vars

\* commit_changes has failed with a message in the buffer, a file staged and
\* an entry of the list unticked
C12_Witness ==
    /\ last_op = "commit_message"
    /\ reported = "Git Error"
    /\ last_commit = "failed"
    /\ text_area = <<"w", "i", "p">>
    /\ \E f \in Files : worktree[f] = "staged"
    /\ \E f \in DOMAIN file_vars : ~file_vars[f]

\* the reply of the generator call of this step passes the test of the loop
C22_ReplyAccepted(t) ==
    /\ calls'[t] = calls[t] + 1
    /\ commit_message'[t] # <<>>
    /\ is_valid_commit_message(commit_message'[t])

\* C22, the step part: a generator call whose reply passes validation ends the
\* loop, with the reply, trimmed, on its way to the buffer; from there the run
\* makes no generator call and shows no prompt, its next step hands the
\* interactive thread the insert of exactly that reply, and the run has ended.
C22_SuccessStep ==
    \A t \in Threads :
        /\ C22_ReplyAccepted(t) =>
            /\ pc'[t] = "insert"
            /\ commit_message'[t] = strip(commit_message'[t])
            /\ tk_queue' = Append(tk_queue, Callback("delete", <<>>, ""))
        /\ pc[t] = "insert" =>
            /\ pc'[t] \in {"insert", "success"}
            /\ calls'[t] <= calls[t]
            /\ last_op' \notin {"generate_attempt", "ask_yes_no"}
            /\ pc'[t] = "success" =>
                tk_queue' = Append(tk_queue, Callback("insert", commit_message[t], ""))
        /\ pc[t] = "success" =>
            /\ pc'[t] \in {"success", "start"}
            /\ last_op' \notin {"generate_attempt", "ask_yes_no"}

\* C22: success is terminal: when attempt n returns a reply that passes
\* validation the loop stops, no attempt n+1 is made, the manual-entry prompt
\* is not shown, and the message delivered to the buffer is that reply, trimmed.
C22_SuccessIsTerminal == [][C22_SuccessStep]_vars

\* a run has ended with the insert of its reply handed to the interactive thread
C22_Witness ==
    /\ last_op = "update_text_area"
    /\ \E t \in Threads : pc[t] = "success"
    /\ tk_queue # <<>>
    /\ tk_queue[Len(tk_queue)] = Callback("insert", <<"f", "e", "a", "t", ":", " ", "x">>, "")

\* C23, the step part: the prompt is shown by the step after the loop only,
\* to a run that made max_retries generator calls, the last reply rejected
\* like the ones before it; on yes the step hands the interactive thread the
\* clearing of the buffer, on no it hands it nothing, and it leaves the buffer
\* itself alone; the callback of a yes empties the buffer; a run that has
\* prompted makes no generator call and prompts no more.
C23_PromptStep ==
    \A t \in Threads :
        /\ reported' = "Generate Commit Message" =>
            /\ last_op' = "ask_yes_no"
            /\ pc[t] = "prompt"
        /\ pc[t] = "prompt" =>
            /\ calls[t] = MaxRetries
            /\ attempt[t] = MaxRetries
            /\ ~(commit_message[t] # <<>> /\ is_valid_commit_message(commit_message[t]))
            /\ last_op' # "generate_attempt"
            /\ pc'[t] \in {"prompt", "manual", "declined"}
        /\ (pc[t] = "prompt" /\ pc'[t] = "manual") =>
            /\ tk_queue' = Append(tk_queue, Callback("delete", <<>>, ""))
            /\ text_area' = text_area
        /\ (pc[t] = "prompt" /\ pc'[t] = "declined") =>
            /\ tk_queue' = tk_queue
            /\ text_area' = text_area
        /\ (last_op' = "run_callback" /\ Head(tk_queue).op = "delete") => text_area' = <<>>
        /\ pc[t] \in {"manual", "declined"} =>
            /\ pc'[t] \in {pc[t], "start"}
            /\ last_op' \notin {"generate_attempt", "ask_yes_no"}

\* C23: the manual-entry prompt is shown only after max_retries consecutive
\* failed attempts and at most once per run; a yes clears the message buffer,
\* a no leaves it unchanged, and after either no generator call is made.
C23_PromptOnceAfterMaxRetries == [][C23_PromptStep]_vars

\* the user answered yes with a text of their own in the buffer, and the
\* clearing of the buffer is on its way
C23_Witness ==
    /\ last_op = "ask_yes_no"
    /\ \E t \in Threads : pc[t] = "manual"
    /\ text_area = <<"w", "i", "p">>
    /\ tk_queue = <<Callback("delete", <<>>, "")>>

\* the files with a staged change
StagedFiles(wt) == { f \in Files : wt[f] = "staged" }

\* the displayed entries whose checkbox is ticked
TickedFiles == { f \in DOMAIN file_vars : file_vars[f] }

\* C27, the step part, for a Generate click: when the click starts a
\* generation thread, staging succeeded and the staged files are exactly the
\* ticked entries; when it ends with the "No Files Selected" warning, no entry
\* was ticked, nothing is staged, whatever was staged before, and no
\* generation thread is started; a thread is started by a successful staging only.
C27_StagingStep ==
    last_op' = "generate_message" =>
        /\ reported' = "none" =>
            /\ TickedFiles # {}
            /\ StagedFiles(worktree') = TickedFiles
            /\ \E t \in Threads : pc[t] # "start" /\ pc'[t] = "start"
        /\ reported' = "No Files Selected" =>
            /\ TickedFiles = {}
            /\ StagedFiles(worktree') = {}
            /\ \A f \in StagedFiles(worktree) : worktree'[f] = "changed"
            /\ UNCHANGED thread_vars
        /\ reported' # "none" => UNCHANGED thread_vars

\* C27: stage_selected_files unstages everything before it looks at the
\* selection: after a successful call the staged set is exactly the selected
\* entries, and when it returns False because no entry is selected the index
\* holds no staged change and no generation task is started.
C27_UnstageBeforeSelection == [][C27_StagingStep]_vars

\* a Generate click staged the one ticked file and started the thread, the
\* other file displayed, changed and not ticked
C27_Witness ==
    /\ last_op = "generate_message"
    /\ reported = "none"
    /\ \E t \in Threads : pc[t] = "start"
    /\ \E f, g \in DOMAIN file_vars :
        /\ file_vars[f] /\ worktree[f] = "staged"
        /\ ~file_vars[g] /\ worktree[g] = "changed"

\* the steps the generation thread runs
ThreadSteps == {"get_staged_diff", "generate_attempt", "update_text_area", "ask_yes_no"}

\* C14: a step of the generation thread shows no message box itself: whatever
\* it has to show is handed to the interactive thread as a callback.
C14_ThreadTouchesNoWidget ==
    last_op \in ThreadSteps => reported = "none"

\* C20: a generation run that has ended has delivered a message, shown the
\* manual-entry prompt, or reported an error or a warning: its last step showed
\* a box or handed the interactive thread the insert or the error callback.
C20_NoSilentEnd ==
    \A t \in Threads :
        (pc[t] \in Ended /\ last_op \in ThreadSteps) =>
            \/ reported # "none"
            \/ /\ tk_queue # <<>>
               /\ tk_queue[Len(tk_queue)].op \in {"insert", "showerror", "showwarning"}

=============================================================================
